---- MODULE Spec2Model ----
(***************************************************************************)
(* Model of the 8-puzzle core (src/puzzle.py): state helpers, solvability  *)
(* parity, neighbor generation, Manhattan heuristic, A* search and the     *)
(* random-walk scrambler.                                                  *)
(*                                                                         *)
(* A Python state tuple (s[0], ..., s[8]) is the TLA+ sequence             *)
(* <<s[0], ..., s[8]>>; the Python index i is the TLA+ index i + 1, which  *)
(* At and Swap hide.                                                       *)
(***************************************************************************)
EXTENDS Integers, Sequences, FiniteSets, Bags, TLC

\* ------------------------------------------------------------------ bounds
\* Start states of a search lie within MaxDepth moves of the goal.
MaxDepth == 7
\* The search stops expanding after MaxExpanded expansions.
MaxExpanded == 18
\* The scrambler is called with at most MaxSteps steps.
MaxSteps == 12
\* A seeded scrambler call makes at most MaxDraws draws from its generator.
MaxDraws == 4
\* The difficulty slider of the session is set to at most MaxSlider steps.
MaxSlider == 10
\* The session keeps solvable permutations within MaxKept moves of the goal.
MaxKept == 4

\* ------------------------------------------------------- state helpers
GOAL == <<1, 2, 3, 4, 5, 6, 7, 8, 0>>

\* Python's None
None == [none |-> TRUE]

\* None where the code holds a cell index: equal to no index of the grid
NoCell == -1

\* None as the seed argument; the seeds of the model are naturals
NoSeed == -1

At(state, i) == state[i + 1]

Range(seq) == {seq[i] : i \in 1..Len(seq)}

Abs(x) == IF x < 0 THEN -x ELSE x

index_to_rc(i) == <<i \div 3, i % 3>>

rc_to_index(r, c) == r * 3 + c

is_solved(s) == s = GOAL

HasBlank(state) == \E i \in 1..Len(state) : state[i] = 0

\* tuple.index(0): the first index holding 0, scanning from index i
\* (raises ValueError without one: callers check HasBlank first)
RECURSIVE IndexFrom(_, _)
IndexFrom(state, i) ==
    IF At(state, i) = 0 THEN i ELSE IndexFrom(state, i + 1)

IndexOfBlank(state) == IndexFrom(state, 0)

\* s[z], s[j] = s[j], s[z], with a for z and b for j
Swap(state, a, b) ==
    [state EXCEPT ![a + 1] = At(state, b), ![b + 1] = At(state, a)]

\* ------------------------------------------------------- is_solvable
\* is_solvable without the filter on the blank
is_solvableCountingBlank(state) ==
    LET inv == Cardinality({p \in (1..Len(state)) \X (1..Len(state)) :
                               p[1] < p[2] /\ state[p[1]] > state[p[2]]})
    IN  inv % 2 = 0

is_solvable(state) ==
    LET arr == SelectSeq(state, LAMBDA x : x # 0)
        inv == Cardinality({p \in (1..Len(arr)) \X (1..Len(arr)) :
                               p[1] < p[2] /\ arr[p[1]] > arr[p[2]]})
    IN  inv % 2 = 0

\* ------------------------------------------------------- neighbors
\* the direction list with a diagonal in place of right
DirsDiagonal == << <<-1, 0>>, <<1, 0>>, <<0, -1>>, <<1, 1>> >>

\* line 30: (dr, dc) for up, down, left, right
Dirs == << <<-1, 0>>, <<1, 0>>, <<0, -1>>, <<0, 1>> >>

InGrid(r, c) == 0 <= r /\ r < 3 /\ 0 <= c /\ c < 3

\* lines 30-33: the in-grid cells next to (zr, zc), in loop order
Targets(zr, zc) ==
    LET one(d) == IF InGrid(zr + d[1], zc + d[2])
                  THEN <<rc_to_index(zr + d[1], zc + d[2])>>
                  ELSE <<>>
    IN  one(Dirs[1]) \o one(Dirs[2]) \o one(Dirs[3]) \o one(Dirs[4])

BlankTargets(state) ==
    LET rc == index_to_rc(IndexOfBlank(state))
    IN  Targets(rc[1], rc[2])

\* neighbors raises ValueError (no 0 in the tuple) or IndexError (s[j] past
\* the end of the list) instead of returning.
neighborsRaises(state) ==
    \/ ~HasBlank(state)
    \/ \E j \in Range(BlankTargets(state)) : j >= Len(state)

neighbors(state) ==
    LET z0 == IndexOfBlank(state)
        t == BlankTargets(state)
    IN  [k \in 1..Len(t) |-> Swap(state, z0, t[k])]

\* ------------------------------------------------------- can_slide, slide_if_adjacent
\* can_slide with <= 1 in place of == 1
can_slideAtMostOne(state, tile_index) ==
    LET zrc == index_to_rc(IndexOfBlank(state))
        rc == index_to_rc(tile_index)
    IN  Abs(zrc[1] - rc[1]) + Abs(zrc[2] - rc[2]) <= 1

\* can_slide accepting the diagonal cells too
can_slideDiagonal(state, tile_index) ==
    LET zrc == index_to_rc(IndexOfBlank(state))
        rc == index_to_rc(tile_index)
    IN  /\ Abs(zrc[1] - rc[1]) <= 1
        /\ Abs(zrc[2] - rc[2]) <= 1
        /\ tile_index # IndexOfBlank(state)

can_slide(state, tile_index) ==
    LET zrc == index_to_rc(IndexOfBlank(state))
        rc == index_to_rc(tile_index)
    IN  Abs(zrc[1] - rc[1]) + Abs(zrc[2] - rc[2]) = 1

slide_if_adjacent(state, tile_index) ==
    IF ~can_slide(state, tile_index) THEN state
    ELSE Swap(state, IndexOfBlank(state), tile_index)

\* ------------------------------------------------------- manhattan
\* the loop without the skip of the blank (lines 42-43)
RECURSIVE manhattanCountingBlank(_, _)
manhattanCountingBlank(state, i) ==
    IF i >= Len(state) THEN 0
    ELSE LET v == At(state, i)
             rc == index_to_rc(i)
             g == index_to_rc(v - 1)
         IN  Abs(rc[1] - g[1]) + Abs(rc[2] - g[2])
             + manhattanCountingBlank(state, i + 1)

RECURSIVE manhattanFrom(_, _)
manhattanFrom(state, i) ==
    IF i >= Len(state) THEN 0
    ELSE LET v == At(state, i)
             rc == index_to_rc(i)
             g == index_to_rc(v - 1)
         IN  (IF v = 0 THEN 0
              ELSE Abs(rc[1] - g[1]) + Abs(rc[2] - g[2]))
             + manhattanFrom(state, i + 1)

manhattan(state) == manhattanFrom(state, 0)

\* ------------------------------------------------------- Node, _reconstruct
\* a node built without its parent link
NodeWithoutParent(f, state, g, parent) == [f |-> f, state |-> state, g |-> g, parent |-> None]

\* lines 49-54
Node(f, state, g, parent) == [f |-> f, state |-> state, g |-> g, parent |-> parent]

RECURSIVE reconstructRev(_)
reconstructRev(n) ==
    IF n = None THEN <<>> ELSE <<n.state>> \o reconstructRev(n.parent)

Reverse(seq) == [i \in 1..Len(seq) |-> seq[Len(seq) + 1 - i]]

\* _reconstruct without path.reverse()
reconstructUnreversed(n) == reconstructRev(n)

\* lines 56-62
reconstruct(n) == Reverse(reconstructRev(n))


\* ------------------------------------------------------------------ state
VARIABLES
    start,        \* the state a core operation is called with
    op,           \* the operation called: "none" before the call
    pc,           \* "idle", "loop" (inside a_star's while), "returned", "raised", "rejected"
    ret,          \* what is_solvable / neighbors returned
    openh,        \* a_star: the heap of open nodes (a bag of Node records)
    gbest,        \* a_star: dict state -> best g pushed so far
    best_seen_g,  \* a_star: dict state -> g at which the state was expanded
    expanded,     \* a_star: the expansion counter
    path,         \* a_star: the returned path
    metrics,      \* a_star: the returned metrics dict
    steps,        \* scramble_via_random_walk: the steps argument
    s,            \* scrambler: the list being shuffled
    z,            \* scrambler: the index of the blank
    zrc,          \* scrambler: <<zr, zc>>
    last_swap,    \* scrambler: the cell the blank left in the previous step
    it,           \* scrambler: iterations of the for loop done
    spc,          \* scrambler: "idle", "loop", "returned"
    result,       \* scrambler: the returned tuple
    board,        \* the state the move functions are applied to
    root,         \* the state the board started from
    seed,         \* scrambler: the seed argument (NoSeed for None)
    stream,       \* the stream of draws random.Random(seed) yields for that seed
    rng,          \* scrambler: the generator, [tape, pos]
    picks,        \* scrambler: the cells chosen by rng.choice so far in this call
    first,        \* what the previous call with the same arguments chose and returned
    session_state, \* st.session_state: tiles, current, solution, metrics, step_idx, img_hash
    up,           \* the file held by the uploader widget, None without one
    notice        \* the message the last script run showed, "none" without one

coreVars == <<start, op, pc, ret, openh, gbest, best_seen_g, expanded, path, metrics>>

scrVars == <<steps, s, z, zrc, last_swap, it, spc, result>>

boardVars == <<board, root>>

seedVars == <<seed, stream, rng, picks, first>>

uiVars == <<session_state, up, notice>>

vars == <<coreVars, scrVars, boardVars, seedVars, uiVars>>

\* A Python dict is a function; the empty dict is the empty function.
EmptyDict == <<>>

DictSet(d, k, v) == (k :> v) @@ d

\* ------------------------------------------------------- inputs
\* The goal with two non-blank tiles exchanged: the other parity class.
ODD == <<2, 1, 3, 4, 5, 6, 7, 8, 0>>

Grow(S) == S \cup UNION {Range(neighbors(x)) : x \in S}

RECURSIVE Ball(_, _)
Ball(S, d) == IF d = 0 THEN S ELSE Grow(Ball(S, d - 1))

\* Permutations of 0..8 within MaxDepth moves of the goal.
SolvableStarts == Ball({GOAL}, MaxDepth)

\* Permutations of 0..8 of the other parity class.
UnsolvableStarts == {ODD, <<1, 2, 3, 4, 5, 6, 8, 7, 0>>}

IsPerm(state) ==
    /\ Len(state) = 9
    /\ \A v \in 0..8 : \E i \in 1..9 : state[i] = v

SolvablePerm(state) == IsPerm(state) /\ is_solvable(state)

\* Tuples that are not permutations of 0..8: one cell of the goal overwritten
\* (a repeated value and a missing one, or a value outside 0..8), a wrong
\* length, and a board of equal tiles.
Malformed ==
    {[GOAL EXCEPT ![1] = 8]}
    \cup {[GOAL EXCEPT ![9] = v] : v \in {-1, 8, 9}}
    \cup {SubSeq(GOAL, 1, n) : n \in {0, 3, 8}}
    \cup {SubSeq(GOAL, 7, 9), GOAL \o <<9>>, <<1, 0, 1, 1, 1, 1, 1, 1, 1>>}

Inputs == SolvableStarts \cup UnsolvableStarts \cup Malformed

\* ------------------------------------------------------- a_star
\* heapq.heappop returns a node of least f; Node compares on f alone, so which
\* of several nodes of equal f comes out is left open.
MinNodes(h) ==
    {n \in BagToSet(h) : \A m \in BagToSet(h) : n.f <= m.f}

Push(h, n) == h (+) SetToBag({n})

Pop(h, n) == h (-) SetToBag({n})

\* the loop without the stale test of lines 74-75
StaleNever(cur) == FALSE

\* line 74: the popped node is stale
Stale(cur) ==
    /\ cur.state \in DOMAIN best_seen_g
    /\ best_seen_g[cur.state] < cur.g

\* line 83 as "nxt in gbest and g2 < gbest[nxt]"
ImprovesOnlyKnown(gb, nxt, g2) == nxt \in DOMAIN gb /\ g2 < gb[nxt]

\* line 83: the neighbor is pushed
Improves(gb, nxt, g2) == nxt \notin DOMAIN gb \/ g2 < gb[nxt]

\* the for loop pushing nodes keyed on the heuristic alone (f without g)
RECURSIVE RelaxGreedy(_, _, _, _, _)
RelaxGreedy(cur, nbrs, k, gb, oh) ==
    IF k > Len(nbrs) THEN <<gb, oh>>
    ELSE LET nxt == nbrs[k]
             g2 == cur.g + 1
         IN  IF Improves(gb, nxt, g2)
             THEN RelaxGreedy(cur, nbrs, k + 1, DictSet(gb, nxt, g2),
                              Push(oh, Node(manhattan(nxt), nxt, g2, cur)))
             ELSE RelaxGreedy(cur, nbrs, k + 1, gb, oh)

\* lines 81-85: the for loop over neighbors(cur.state), from its k-th element,
\* threading gbest and the heap; returns <<gbest, openh>>.
RECURSIVE Relax(_, _, _, _, _)
Relax(cur, nbrs, k, gb, oh) ==
    IF k > Len(nbrs) THEN <<gb, oh>>
    ELSE LET nxt == nbrs[k]
             g2 == cur.g + 1
         IN  IF Improves(gb, nxt, g2)
             THEN Relax(cur, nbrs, k + 1, DictSet(gb, nxt, g2),
                        Push(oh, Node(g2 + manhattan(nxt), nxt, g2, cur)))
             ELSE Relax(cur, nbrs, k + 1, gb, oh)

\* lines 65-71 for a_star(st): the early return on the goal, or the seeding
\* of the heap
AStarEnter(st) ==
    IF is_solved(st)
    THEN /\ path' = <<st>>
         /\ metrics' = [expanded |-> 0, length |-> 0]
         /\ pc' = "returned"
         /\ UNCHANGED <<openh, gbest, best_seen_g, expanded>>
    ELSE /\ openh' = Push(EmptyBag, Node(manhattan(st), st, 0, None))
         /\ gbest' = DictSet(EmptyDict, st, 0)
         /\ best_seen_g' = EmptyDict
         /\ expanded' = 0
         /\ pc' = "loop"
         /\ UNCHANGED <<path, metrics>>

AStarBegin == AStarEnter(start)

\* a_star(start) called directly
AStarCall ==
    /\ pc = "idle"
    /\ op' = "a_star"
    /\ AStarBegin
    /\ UNCHANGED <<start, ret, scrVars, boardVars, seedVars, uiVars>>

\* the Solve button without the is_solvable check
SolveCallUnchecked ==
    /\ pc = "idle"
    /\ op' = "solve"
    /\ AStarBegin
    /\ UNCHANGED <<start, ret, scrVars, boardVars, seedVars, uiVars>>

\* app.py lines 77-82, the Solve button with an image loaded: start is
\* session_state.current; a state that is not solvable is refused with
\* st.error and a_star is not called.
SolveCall ==
    /\ pc = "idle"
    /\ op' = "solve"
    /\ IF ~is_solvable(start)
       THEN /\ pc' = "rejected"
            /\ UNCHANGED <<openh, gbest, best_seen_g, expanded, path, metrics>>
       ELSE AStarBegin
    /\ UNCHANGED <<start, ret, scrVars, boardVars, seedVars, uiVars>>

\* lines 72, 86: the while condition fails
AStarExhausted ==
    /\ pc = "loop"
    /\ BagToSet(openh) = {}
    /\ path' = <<>>
    /\ metrics' = [expanded |-> expanded, length |-> 0]
    /\ pc' = "returned"
    /\ UNCHANGED <<start, op, ret, openh, gbest, best_seen_g, expanded, scrVars, boardVars, seedVars, uiVars>>

\* lines 73-75
AStarSkipStale ==
    /\ pc = "loop"
    /\ \E cur \in MinNodes(openh) :
        /\ Stale(cur)
        /\ openh' = Pop(openh, cur)
    /\ UNCHANGED <<start, op, pc, ret, gbest, best_seen_g, expanded, path, metrics, scrVars, boardVars, seedVars, uiVars>>

\* the goal pop counted as an expansion
AStarReturnGoalCounted ==
    /\ pc = "loop"
    /\ \E cur \in MinNodes(openh) :
        /\ ~Stale(cur)
        /\ is_solved(cur.state)
        /\ openh' = Pop(openh, cur)
        /\ path' = reconstruct(cur)
        /\ metrics' = [expanded |-> expanded + 1, length |-> Len(reconstruct(cur)) - 1]
    /\ pc' = "returned"
    /\ UNCHANGED <<start, op, ret, gbest, best_seen_g, expanded, scrVars, boardVars, seedVars, uiVars>>

\* lines 73-78
AStarReturnGoal ==
    /\ pc = "loop"
    /\ \E cur \in MinNodes(openh) :
        /\ ~Stale(cur)
        /\ is_solved(cur.state)
        /\ openh' = Pop(openh, cur)
        /\ path' = reconstruct(cur)
        /\ metrics' = [expanded |-> expanded, length |-> Len(reconstruct(cur)) - 1]
    /\ pc' = "returned"
    /\ UNCHANGED <<start, op, ret, gbest, best_seen_g, expanded, scrVars, boardVars, seedVars, uiVars>>

\* lines 73-85; neighbors raising ends the call with the exception
AStarExpand ==
    /\ pc = "loop"
    /\ expanded < MaxExpanded
    /\ \E cur \in MinNodes(openh) :
        /\ ~Stale(cur)
        /\ ~is_solved(cur.state)
        /\ best_seen_g' = DictSet(best_seen_g, cur.state, cur.g)
        /\ expanded' = expanded + 1
        /\ IF neighborsRaises(cur.state)
           THEN /\ pc' = "raised"
                /\ openh' = Pop(openh, cur)
                /\ gbest' = gbest
           ELSE LET r == Relax(cur, neighbors(cur.state), 1, gbest, Pop(openh, cur))
                IN  /\ pc' = "loop"
                    /\ gbest' = r[1]
                    /\ openh' = r[2]
    /\ UNCHANGED <<start, op, ret, path, metrics, scrVars, boardVars, seedVars, uiVars>>

\* is_solvable(start), lines 18-24: no statement of it raises
IsSolvableCall ==
    /\ pc = "idle"
    /\ op' = "is_solvable"
    /\ ret' = is_solvable(start)
    /\ pc' = "returned"
    /\ UNCHANGED <<start, openh, gbest, best_seen_g, expanded, path, metrics, scrVars, boardVars, seedVars, uiVars>>

\* neighbors(start), lines 26-37
NeighborsCall ==
    /\ pc = "idle"
    /\ op' = "neighbors"
    /\ IF neighborsRaises(start)
       THEN pc' = "raised" /\ ret' = ret
       ELSE pc' = "returned" /\ ret' = neighbors(start)
    /\ UNCHANGED <<start, openh, gbest, best_seen_g, expanded, path, metrics, scrVars, boardVars, seedVars, uiVars>>

CoreIdle ==
    /\ op = "none"
    /\ pc = "idle"
    /\ ret = None
    /\ openh = EmptyBag
    /\ gbest = EmptyDict
    /\ best_seen_g = EmptyDict
    /\ expanded = 0
    /\ path = <<>>
    /\ metrics = None

ScrIdle ==
    /\ steps = 0
    /\ s = GOAL
    /\ z = 8
    /\ zrc = <<2, 2>>
    /\ last_swap = NoCell
    /\ it = 0
    /\ spc = "idle"
    /\ result = None

BoardIdle == board = GOAL /\ root = GOAL

SeedIdle ==
    /\ seed = NoSeed
    /\ stream = <<>>
    /\ rng = None
    /\ picks = <<>>
    /\ first = None

\* app.py lines 25-35: init_state on a fresh session
init_state ==
    session_state = [tiles |-> None, current |-> GOAL, solution |-> <<>>,
                     metrics |-> EmptyDict, step_idx |-> 0, img_hash |-> None]

\* a fresh session: nothing uploaded, nothing shown
UiIdle ==
    /\ init_state
    /\ up = None
    /\ notice = "none"

\* One call of a core operation on a supplied state.
Init ==
    /\ start \in Inputs
    /\ CoreIdle
    /\ ScrIdle
    /\ BoardIdle
    /\ SeedIdle
    /\ UiIdle

Next ==
    \/ AStarCall
    \/ SolveCall
    \/ AStarExhausted
    \/ AStarSkipStale
    \/ AStarReturnGoal
    \/ AStarExpand
    \/ IsSolvableCall
    \/ NeighborsCall

Spec == Init /\ [][Next]_vars

\* ------------------------------------------------------- scramble_via_random_walk
\* the scrambler's direction list with a diagonal in place of right
ScrDirsDiagonal == << <<-1, 0>>, <<1, 0>>, <<0, -1>>, <<1, 1>> >>

\* line 110: the scrambler's own list of (dr, dc)
ScrDirs == << <<-1, 0>>, <<1, 0>>, <<0, -1>>, <<0, 1>> >>

\* lines 109-114: the scrambler's own copy of the direction loop
opts(zr, zc) ==
    LET one(d) == IF InGrid(zr + d[1], zc + d[2])
                  THEN <<rc_to_index(zr + d[1], zc + d[2])>>
                  ELSE <<>>
    IN  one(ScrDirs[1]) \o one(ScrDirs[2]) \o one(ScrDirs[3]) \o one(ScrDirs[4])

\* the choice without the exclusion of the cell the blank just left
ChoicesWithBacktrack(o, last) == o

\* lines 115-116: drop the cell the blank just left, unless it is the only one
Choices(o, last) ==
    IF last \in Range(o) /\ Len(o) > 1
    THEN SelectSeq(o, LAMBDA j : j # last)
    ELSE o

\* lines 103-107
ScrambleCall ==
    /\ spc = "idle"
    /\ s' = GOAL
    /\ z' = IndexOfBlank(GOAL)
    /\ zrc' = index_to_rc(IndexOfBlank(GOAL))
    /\ last_swap' = NoCell
    /\ it' = 0
    /\ spc' = "loop"
    /\ UNCHANGED <<steps, result, coreVars, boardVars, seedVars, uiVars>>

\* the swap with last_swap set to the cell the blank moves to
StepWithLastNew(j) ==
    /\ s' = Swap(s, z, j)
    /\ last_swap' = j
    /\ z' = j
    /\ zrc' = index_to_rc(j)

\* lines 118-121: the swap with the chosen cell j
StepWith(j) ==
    /\ s' = Swap(s, z, j)
    /\ last_swap' = z
    /\ z' = j
    /\ zrc' = index_to_rc(j)

\* lines 108-121: one iteration; rng.choice may return any element of opts
ScrambleStep ==
    /\ spc = "loop"
    /\ it < steps
    /\ \E j \in Range(Choices(opts(zrc[1], zrc[2]), last_swap)) : StepWith(j)
    /\ it' = it + 1
    /\ UNCHANGED <<steps, spc, result, coreVars, boardVars, seedVars, uiVars>>

\* line 122
ScrambleReturn ==
    /\ spc = "loop"
    /\ it = steps
    /\ result' = s
    /\ spc' = "returned"
    /\ UNCHANGED <<steps, s, z, zrc, last_swap, it, coreVars, boardVars, seedVars, uiVars>>

InitScramble ==
    /\ steps \in 0..MaxSteps
    /\ s = GOAL
    /\ z = 8
    /\ zrc = <<2, 2>>
    /\ last_swap = NoCell
    /\ it = 0
    /\ spc = "idle"
    /\ result = None
    /\ start = GOAL
    /\ CoreIdle
    /\ BoardIdle
    /\ SeedIdle
    /\ UiIdle

NextScramble == ScrambleCall \/ ScrambleStep \/ ScrambleReturn

SpecScramble == InitScramble /\ [][NextScramble]_vars

\* ------------------------------------------------------- the scrambler with its generator
\* What a generator can yield: draw k of the stream decides the k-th choice.
Tapes == [1..MaxDraws -> 0..5]

\* a generator that ignores the seed argument: some of the streams the
\* system's entropy can give
RandomUnseeded(sd) == {[tape |-> [k \in 1..MaxDraws |-> e], pos |-> 1] : e \in 0..5}

\* line 103, random.Random(seed), as the set of generators the call can get:
\* the stream is a function of the seed, and with seed None it is drawn from
\* the system's entropy.
Random(sd) ==
    IF sd = NoSeed THEN {[tape |-> e, pos |-> 1] : e \in Tapes}
    ELSE {[tape |-> stream, pos |-> 1]}

\* line 117, rng.choice(opts): the element the next draw selects
choice(g, o) == o[(g.tape[g.pos] % Len(o)) + 1]

\* the generator after one draw
Advance(g) == [g EXCEPT !.pos = @ + 1]

\* lines 103-107
SeededCall ==
    /\ spc = "idle"
    /\ rng' \in Random(seed)
    /\ s' = GOAL
    /\ z' = IndexOfBlank(GOAL)
    /\ zrc' = index_to_rc(IndexOfBlank(GOAL))
    /\ last_swap' = NoCell
    /\ it' = 0
    /\ picks' = <<>>
    /\ spc' = "loop"
    /\ UNCHANGED <<steps, result, seed, stream, first, coreVars, boardVars, uiVars>>

\* lines 108-121: one iteration, the choice made by the generator
SeededStep ==
    /\ spc = "loop"
    /\ it < steps
    /\ LET j == choice(rng, Choices(opts(zrc[1], zrc[2]), last_swap))
       IN  /\ StepWith(j)
           /\ picks' = Append(picks, j)
    /\ rng' = Advance(rng)
    /\ it' = it + 1
    /\ UNCHANGED <<steps, spc, result, seed, stream, first, coreVars, boardVars, uiVars>>

\* line 122
SeededReturn ==
    /\ spc = "loop"
    /\ it = steps
    /\ result' = s
    /\ spc' = "returned"
    /\ UNCHANGED <<steps, s, z, zrc, last_swap, it, seedVars, coreVars, boardVars, uiVars>>

\* The call's generator is dropped with its frame; the caller keeps what the
\* call chose and returned and is ready to call again with the same arguments.
SeededAgain ==
    /\ spc = "returned"
    /\ first = None
    /\ first' = [result |-> result, picks |-> picks]
    /\ rng' = None
    /\ picks' = <<>>
    /\ spc' = "idle"
    /\ UNCHANGED <<steps, s, z, zrc, last_swap, it, result, seed, stream,
                   coreVars, boardVars, uiVars>>

InitSeeded ==
    /\ steps \in 0..MaxDraws
    /\ \/ seed = 0 /\ stream \in Tapes
       \/ seed = NoSeed /\ stream = <<>>
    /\ rng = None
    /\ picks = <<>>
    /\ first = None
    /\ s = GOAL
    /\ z = 8
    /\ zrc = <<2, 2>>
    /\ last_swap = NoCell
    /\ it = 0
    /\ spc = "idle"
    /\ result = None
    /\ start = GOAL
    /\ CoreIdle
    /\ BoardIdle
    /\ UiIdle

NextSeeded == SeededCall \/ SeededStep \/ SeededReturn \/ SeededAgain

SpecSeeded == InitSeeded /\ [][NextSeeded]_vars

\* ------------------------------------------------------- the move functions on every board
\* board' is one of neighbors(board)
Move ==
    /\ board' \in Range(neighbors(board))
    /\ UNCHANGED <<root, coreVars, scrVars, seedVars, uiVars>>

\* board' is slide_if_adjacent(board, i)
Slide ==
    /\ \E i \in 0..8 : board' = slide_if_adjacent(board, i)
    /\ UNCHANGED <<root, coreVars, scrVars, seedVars, uiVars>>

\* The two classes of permutations of 0..8 closed under moves start at GOAL and ODD.
InitBoard ==
    /\ board \in {GOAL, ODD}
    /\ root = board
    /\ start = GOAL
    /\ CoreIdle
    /\ ScrIdle
    /\ SeedIdle
    /\ UiIdle

NextBoard == Move \/ Slide

SpecBoard == InitBoard /\ [][NextBoard]_vars

\* ------------------------------------------------------- the UI session (src/app.py)
\* The files a user can put in the uploader.
Files == {[name |-> "a"], [name |-> "b"]}

\* hashlib.md5(data).hexdigest(): equal for equal files, and never None nor
\* the "default_i" of a default image
md5(f) == [md5 |-> f.name]

\* slice_into_tiles(square_and_resize(img, 540)): the tiles of an image
slice_into_tiles(img) == [of |-> img]

\* line 60: the values of the difficulty slider, 10 to 120 in steps of 10
SliderSteps == {n \in 10..MaxSlider : n % 10 = 0}

\* The states of a scrambler run after k steps of its loop (lines 108-121),
\* rng.choice returning any element of opts.
RECURSIVE Walk(_)
Walk(k) ==
    IF k = 0
    THEN {[s |-> GOAL, z |-> IndexOfBlank(GOAL), last_swap |-> NoCell]}
    ELSE UNION {{[s |-> Swap(w.s, w.z, j), z |-> j, last_swap |-> w.z] :
                    j \in Range(Choices(opts(index_to_rc(w.z)[1], index_to_rc(w.z)[2]),
                                        w.last_swap))} :
                w \in Walk(k - 1)}

\* The states scramble_via_random_walk(steps=n) can return without a seed.
scramble_via_random_walk(n) == {w.s : w \in Walk(n)}

\* The permutations within MaxKept moves of the goal.
NearGoal == Ball({GOAL}, MaxKept)

\* A solvable permutation is kept in the session while it lies within MaxKept
\* moves of the goal; any other state is kept whatever it is.
Bounded(state) == SolvablePerm(state) => state \in NearGoal

\* The states within the session's bound that a scramble of one of the step
\* counts of S can return, as an enumerated set.
ScrambleOutcomes(S) ==
    {r : r \in {x \in UNION {scramble_via_random_walk(n) : n \in S} : Bounded(x)}}

\* line 65 over the slider values: what Shuffle can set current to
ShuffleOutcomes == ScrambleOutcomes(SliderSteps)

Cleared(ss) ==
    [ss EXCEPT !.solution = <<>>, !.metrics = EmptyDict, !.step_idx = 0]

\* lines 43-56: the upload handler, run at the top of every script run with
\* the file f held by the uploader
upload_handler(ss, f) ==
    IF f # None /\ ss.img_hash # md5(f)
    THEN [Cleared(ss) EXCEPT !.tiles = slice_into_tiles(f), !.current = GOAL,
                             !.img_hash = md5(f)]
    ELSE ss

\* line 214: the values the playback slider can return
SliderValues(ss) ==
    IF ss.solution = <<>> THEN {0} ELSE 0..(Len(ss.solution) - 1)

Max(a, b) == IF a >= b THEN a ELSE b

Min(a, b) == IF a <= b THEN a ELSE b

\* the playback block with Next written as step_idx + 1
playbackUnclamped(ss, v, button) ==
    IF ss.solution = <<>> THEN ss
    ELSE LET n == Len(ss.solution)
         IN  [ss EXCEPT !.step_idx =
                 CASE button = "prev" -> Max(0, v - 1)
                   [] button = "next" -> v + 1
                   [] button = "reset" -> 0
                   [] OTHER -> v]

\* lines 211-224: the playback block at the end of a script run, the slider
\* returning v and button being the playback button clicked, if any
playback(ss, v, button) ==
    IF ss.solution = <<>> THEN ss
    ELSE LET n == Len(ss.solution)
         IN  [ss EXCEPT !.step_idx =
                 CASE button = "prev" -> Max(0, v - 1)
                   [] button = "next" -> Min(n - 1, v + 1)
                   [] button = "reset" -> 0
                   [] OTHER -> v]

\* The end of a script run in which no playback button was clicked.
Finish(ss, msg) ==
    /\ \E v \in SliderValues(ss) : session_state' = playback(ss, v, "none")
    /\ notice' = msg

\* the uploader's file changes to f (or is removed) and the script runs
UploaderChange ==
    /\ pc = "idle"
    /\ \E f \in Files \cup {None} :
        /\ f # up
        /\ up' = f
        /\ LET s1 == upload_handler(session_state, f)
           IN  Finish(s1, IF s1 # session_state THEN "sliced" ELSE "none")
    /\ UNCHANGED <<coreVars, scrVars, boardVars, seedVars>>

\* lines 61-69: the Shuffle button
ShuffleClick ==
    /\ pc = "idle"
    /\ LET s1 == upload_handler(session_state, up)
       IN  IF s1.tiles = None
           THEN Finish(s1, "upload_first")
           ELSE \E r \in ShuffleOutcomes :
                    Finish([Cleared(s1) EXCEPT !.current = r], "shuffled")
    /\ UNCHANGED <<up, coreVars, scrVars, boardVars, seedVars>>

\* line 180: the state an accepted tile click sets
TileSlide(cur, i) == slide_if_adjacent(cur, i)

\* lines 73-82: the Solve button up to the call of a_star(current)
SolveClick ==
    /\ pc = "idle"
    /\ LET s1 == upload_handler(session_state, up)
       IN  IF s1.tiles = None
           THEN Finish(s1, "upload_first") /\ UNCHANGED coreVars
           ELSE IF ~is_solvable(s1.current)
           THEN Finish(s1, "not_solvable") /\ UNCHANGED coreVars
           ELSE /\ session_state' = s1
                /\ notice' = "none"
                /\ start' = s1.current
                /\ op' = "solve"
                /\ AStarEnter(s1.current)
                /\ ret' = ret
    /\ UNCHANGED <<up, scrVars, boardVars, seedVars>>

\* lines 83-89 and the rest of the script run, once a_star has returned; the
\* frame of a_star is dropped
SolveFinish ==
    /\ op = "solve"
    /\ pc = "returned"
    /\ IF path = <<>>
       THEN Finish(session_state, "no_solution")
       ELSE Finish([session_state EXCEPT !.solution = path, !.metrics = metrics,
                                         !.step_idx = 0], "solved")
    /\ start' = GOAL
    /\ op' = "none"
    /\ pc' = "idle"
    /\ openh' = EmptyBag
    /\ gbest' = EmptyDict
    /\ best_seen_g' = EmptyDict
    /\ expanded' = 0
    /\ path' = <<>>
    /\ metrics' = None
    /\ UNCHANGED <<ret, up, scrVars, boardVars, seedVars>>

\* lines 94-98: the Reset to Goal button
ResetClick ==
    /\ pc = "idle"
    /\ LET s1 == upload_handler(session_state, up)
       IN  Finish([Cleared(s1) EXCEPT !.current = GOAL], "none")
    /\ UNCHANGED <<up, coreVars, scrVars, boardVars, seedVars>>

\* lines 133-146: a default-image button, shown while there are no tiles;
\* st.rerun() runs the script once more from the top
DefaultClick ==
    /\ pc = "idle"
    /\ session_state.tiles = None
    /\ \E i \in 0..3 :
        LET s1 == upload_handler(session_state, up)
            s2 == [Cleared(s1) EXCEPT !.tiles = slice_into_tiles([default |-> i]),
                                      !.current = GOAL,
                                      !.img_hash = [default |-> i]]
        IN  IF s1.tiles # None
            THEN Finish(s1, "none")
            ELSE Finish(upload_handler(s2, up), "sliced")
    /\ UNCHANGED <<up, coreVars, scrVars, boardVars, seedVars>>

\* lines 165-186: a tile button, shown while there are tiles and no solution;
\* st.rerun() runs the script once more from the top
TileClick ==
    /\ pc = "idle"
    /\ session_state.tiles # None
    /\ session_state.solution = <<>>
    /\ \E i \in 0..8 :
        LET s1 == upload_handler(session_state, up)
            cur == s1.current
        IN  IF s1.tiles = None \/ s1.solution # <<>>
            THEN Finish(s1, "none")
            ELSE IF can_slide(cur, i)
            THEN /\ Bounded(TileSlide(cur, i))
                 /\ Finish(upload_handler([Cleared(s1) EXCEPT !.current = TileSlide(cur, i)],
                                          up), "none")
            ELSE Finish(s1, "pick_adjacent")
    /\ UNCHANGED <<up, coreVars, scrVars, boardVars, seedVars>>

\* A script run with a playback widget used; the widgets are shown while
\* there is a solution.
PlaybackRun(button) ==
    /\ session_state.solution # <<>>
    /\ LET s1 == upload_handler(session_state, up)
       IN  \E v \in SliderValues(s1) : session_state' = playback(s1, v, button)
    /\ notice' = "none"
    /\ UNCHANGED <<up, coreVars, scrVars, boardVars, seedVars>>

\* line 214: the Step slider moved
PlaybackSlider ==
    /\ pc = "idle"
    /\ PlaybackRun("none")

\* lines 217-218
PrevClick ==
    /\ pc = "idle"
    /\ PlaybackRun("prev")

\* lines 220-221
NextClick ==
    /\ pc = "idle"
    /\ PlaybackRun("next")

\* lines 223-224
ResetToStartClick ==
    /\ pc = "idle"
    /\ PlaybackRun("reset")

InitUI ==
    /\ UiIdle
    /\ start = GOAL
    /\ CoreIdle
    /\ ScrIdle
    /\ BoardIdle
    /\ SeedIdle

\* The search of the Solve handler runs on a solvable permutation within
\* MaxKept moves of the goal, where the heap never runs empty and no stale
\* node is popped: AStarExhausted and AStarSkipStale are never enabled.
NextUI ==
    \/ UploaderChange
    \/ ShuffleClick
    \/ SolveClick
    \/ AStarReturnGoal
    \/ AStarExpand
    \/ SolveFinish
    \/ ResetClick
    \/ DefaultClick
    \/ TileClick
    \/ PlaybackSlider
    \/ PrevClick
    \/ NextClick
    \/ ResetToStartClick

SpecUI == InitUI /\ [][NextUI]_vars

\* ------------------------------------------------------------------ claims
\* Breadth-first search over neighbors from a set of states to the goal: the
\* number of layers grown before the goal appears.
RECURSIVE BfsLayers(_, _, _)
BfsLayers(frontier, visited, d) ==
    IF GOAL \in frontier THEN d
    ELSE BfsLayers(Grow(frontier) \ (visited \cup frontier),
                   visited \cup frontier, d + 1)

BfsDistance(state) == BfsLayers({state}, {}, 0)

ASearch == op \in {"a_star", "solve"}

\* C1: for a solvable non-goal permutation, the length a_star reports (the
\* number of path elements minus one) is the breadth-first distance from start
\* to the goal, whichever node of least f each pop returned.
C1_OptimalLength ==
    (ASearch /\ pc = "returned" /\ SolvablePerm(start) /\ start # GOAL)
        => /\ metrics.length = Len(path) - 1
           /\ metrics.length = BfsDistance(start)

C1_Witness ==
    /\ op = "a_star" /\ pc = "returned"
    /\ SolvablePerm(start)
    /\ metrics.length = 7
    /\ metrics.expanded > 7

\* C2: a non-empty path returned by a_star starts at start, ends at the goal,
\* moves by one neighbors step at a time, and length is its element count
\* minus one.
C2_PathWellFormed ==
    (ASearch /\ pc = "returned" /\ path # <<>>)
        => /\ path[1] = start
           /\ path[Len(path)] = GOAL
           /\ \A i \in 1..(Len(path) - 1) : path[i + 1] \in Range(neighbors(path[i]))
           /\ metrics.length = Len(path) - 1

C2_Witness ==
    /\ op = "a_star" /\ pc = "returned"
    /\ Len(path) >= 4
    /\ path[1] = start /\ path[Len(path)] = GOAL

\* C3 as stated: no search on an unsolvable permutation expands a state.
C3_NoExpansionWhenUnsolvable ==
    (ASearch /\ IsPerm(start) /\ ~is_solvable(start)) => expanded = 0

\* C3, amended: the Solve handler refuses an unsolvable permutation before
\* a_star is called, so nothing is expanded and no path is returned for it;
\* a_star called directly makes no such check.
C3_SolveRejectsUnsolvable ==
    (op = "solve" /\ IsPerm(start) /\ ~is_solvable(start))
        => /\ pc = "rejected"
           /\ expanded = 0
           /\ BagToSet(openh) = {}
           /\ path = <<>>

C3_Witness ==
    /\ op = "solve" /\ pc = "rejected"
    /\ start = ODD

\* C5: a search on a solvable permutation never finds the heap empty and is
\* never cut short; every iteration of its loop returns, expands one more state
\* or discards one heap entry; and it returns a non-empty path ending at the goal.
C5_SolvableFindsGoal ==
    /\ [](ASearch /\ SolvablePerm(start)
            => /\ pc \in {"loop", "returned"}
               /\ pc = "loop" => BagToSet(openh) # {} /\ expanded < MaxExpanded
               /\ pc = "returned" => path # <<>> /\ path[Len(path)] = GOAL)
    /\ [][(ASearch /\ SolvablePerm(start) /\ pc = "loop")
            => \/ pc' = "returned" /\ path' # <<>>
               \/ pc' = "loop" /\ expanded' = expanded + 1
               \/ /\ pc' = "loop" /\ expanded' = expanded
                  /\ BagCardinality(openh') < BagCardinality(openh)]_vars

C5_Witness ==
    /\ op = "a_star" /\ pc = "returned"
    /\ SolvablePerm(start)
    /\ path # <<>>
    /\ metrics.expanded >= 10

\* C10 as stated: is_solvable, neighbors and a_star never return a result for a
\* tuple that is not a permutation of 0..8.
C10_MalformedRejected ==
    (~IsPerm(start) /\ op \in {"is_solvable", "neighbors", "a_star"})
        => pc # "returned"

\* C6 as stated: a scramble of at least one step never returns the goal.
C6_ScrambleNeverGoal ==
    (spc = "returned" /\ steps >= 1) => result # GOAL

\* C6, amended: a scramble of an odd number of steps, or of 1 to 11 steps,
\* never returns the goal (12 steps can: three turns around a 2x2 block).
C6_ShortOrOddScrambleNotGoal ==
    (spc = "returned" /\ steps >= 1 /\ (steps % 2 = 1 \/ steps < 12))
        => result # GOAL

C6_Witness ==
    /\ spc = "returned"
    /\ steps = 10
    /\ result # GOAL
    /\ z = 8

\* C7: the scrambler's list is the goal before the first step, every step
\* turns it into one of its neighbors, and it is at every point, and when
\* returned, a solvable permutation of 0..8 whose blank is at z.
C7_ScrambleSolvable ==
    /\ [](/\ spc = "idle" => s = GOAL
          /\ IsPerm(s) /\ is_solvable(s)
          /\ At(s, z) = 0 /\ zrc = index_to_rc(z)
          /\ spc = "returned" => result = s /\ it = steps)
    /\ [][s' # s => s' \in Range(neighbors(s)) /\ it' = it + 1]_vars

C7_Witness ==
    /\ spc = "returned"
    /\ steps >= 10
    /\ result # GOAL
    /\ is_solvable(result)

\* Grid distance between two cells, row-major on the 3x3 grid.
GridDistance(a, b) == Abs((a \div 3) - (b \div 3)) + Abs((a % 3) - (b % 3))

BlankOf(state) == CHOOSE i \in 0..8 : state[i + 1] = 0

\* t is state with the blank (at b) and cell j exchanged and the other 7
\* cells kept.
IsSwapWith(state, t, b, j) ==
    t = [i \in 1..9 |-> IF i = j + 1 THEN 0
                        ELSE IF i = b + 1 THEN state[j + 1]
                        ELSE state[i]]

\* C4: every state reached from the goal by neighbors moves is solvable, and
\* the goal with tiles 1 and 2 exchanged is not.
C4_ParityInvariant ==
    /\ root = GOAL => is_solvable(board)
    /\ ~is_solvable(ODD)

C4_Witness ==
    /\ root = GOAL
    /\ board = <<8, 7, 6, 5, 4, 3, 2, 1, 0>>

\* C8: neighbors(board) has 2 to 4 elements, each the board with the blank and
\* one cell at grid distance 1 exchanged, and the board is a neighbor of each.
C8_Neighbors ==
    LET n == neighbors(board)
        b == BlankOf(board)
    IN  /\ Len(n) \in 2..4
        /\ \A k \in 1..Len(n) :
              /\ \E j \in 0..8 : /\ GridDistance(b, j) = 1
                                 /\ IsSwapWith(board, n[k], b, j)
              /\ board \in Range(neighbors(n[k]))

C8_Witness ==
    /\ board # root
    /\ BlankOf(board) = 4
    /\ Len(neighbors(board)) = 4
    /\ root = ODD

\* C9: can_slide holds exactly for the cells at grid distance 1 from the blank;
\* slide_if_adjacent returns the board itself for the other cells and, for
\* those, the board with the blank and the cell exchanged, a neighbor of it.
C9_Slide ==
    LET b == BlankOf(board)
        n == Range(neighbors(board))
    IN  \A i \in 0..8 :
            LET r == slide_if_adjacent(board, i)
            IN  IF GridDistance(b, i) = 1
                THEN can_slide(board, i) /\ IsSwapWith(board, r, b, i) /\ r \in n
                ELSE ~can_slide(board, i) /\ r = board

C9_Witness ==
    /\ board # root
    /\ BlankOf(board) = 4
    /\ can_slide(board, 1)
    /\ ~can_slide(board, 0)
    /\ ~can_slide(board, 4)
    /\ slide_if_adjacent(board, 0) = board
    /\ slide_if_adjacent(board, 1) # board

\* C11: a_star on the goal returns the path [goal] with expanded = 0 and
\* length = 0, and a_star on a state one move from the goal returns
\* [start, goal] with expanded = 1 and length = 1.
C11_GoalAndOneMove ==
    (op = "a_star" /\ pc = "returned")
        => /\ start = GOAL =>
                /\ path = <<GOAL>>
                /\ metrics = [expanded |-> 0, length |-> 0]
           /\ start \in Range(neighbors(GOAL)) =>
                /\ path = <<start, GOAL>>
                /\ metrics = [expanded |-> 1, length |-> 1]

C11_Witness ==
    /\ op = "a_star" /\ pc = "returned"
    /\ start = <<1, 2, 3, 4, 5, 6, 7, 0, 8>>
    /\ path = <<start, GOAL>>
    /\ metrics.expanded = 1

\* C12: with a seed, a second call with the same steps and seed makes the same
\* choice at every step as the first and returns the same state; and a call
\* with steps = 0 returns the goal for every seed, None included.
C12_SeededDeterministic ==
    /\ (spc = "returned" /\ steps = 0) => result = GOAL
    /\ (seed # NoSeed /\ first # None) =>
          /\ Len(picks) <= Len(first.picks)
          /\ \A k \in 1..Len(picks) : picks[k] = first.picks[k]
          /\ spc = "returned" => result = first.result /\ picks = first.picks

C12_Witness ==
    /\ seed # NoSeed
    /\ first # None
    /\ spc = "returned"
    /\ steps = 4
    /\ Len(picks) = 4
    /\ result = first.result
    /\ result # GOAL

BlankAfter(p, k) == IF k = 0 THEN IndexOfBlank(GOAL) ELSE p[k]

\* The state after k steps of the call, from the choices made.
RECURSIVE StateAfter(_, _)
StateAfter(p, k) ==
    IF k = 0 THEN GOAL
    ELSE Swap(StateAfter(p, k - 1), BlankAfter(p, k - 1), p[k])

\* C14: in a scrambler call the blank never moves back into the cell it held
\* before the previous step, and the state after step k + 2 is never the state
\* after step k (the list s being the state after the steps made so far).
C14_NoImmediateUndo ==
    (spc \in {"loop", "returned"}) =>
        /\ s = StateAfter(picks, Len(picks))
        /\ \A k \in 2..Len(picks) : BlankAfter(picks, k) # BlankAfter(picks, k - 2)
        /\ \A k \in 0..(Len(picks) - 2) : StateAfter(picks, k + 2) # StateAfter(picks, k)

C14_Witness ==
    /\ spc = "returned"
    /\ Len(picks) = 4
    /\ picks[1] = 5 /\ picks[2] = 4 /\ picks[3] = 3 /\ picks[4] = 6
    /\ result = StateAfter(picks, 4)

\* C15: manhattan of the goal is 0, manhattan of every permutation of 0..8 is
\* at least 0, and each neighbor of a permutation has a manhattan value one
\* more or one less than it.
C15_ManhattanConsistent ==
    LET h == manhattan(board)
        n == neighbors(board)
    IN  /\ manhattan(GOAL) = 0
        /\ h >= 0
        /\ \A k \in 1..Len(n) : manhattan(n[k]) - h \in {-1, 1}

C15_Witness ==
    /\ root = GOAL
    /\ manhattan(board) >= 16
    /\ \E x \in Range(neighbors(board)) : manhattan(x) = manhattan(board) + 1
    /\ \E x \in Range(neighbors(board)) : manhattan(x) = manhattan(board) - 1

\* The parent links of n lead to a node without parent, which is the start
\* node at g = 0, each link one neighbors move and one unit of g.
RECURSIVE LinkedToStart(_)
LinkedToStart(n) ==
    IF n.parent = None
    THEN n.g = 0 /\ n.state = start
    ELSE /\ n.g = n.parent.g + 1
         /\ n.state \in Range(neighbors(n.parent.state))
         /\ LinkedToStart(n.parent)

\* C16: every node in the open queue has f = g + manhattan(state), its parent
\* links reach the start node, the only one without parent, in exactly g legal
\* moves, and gbest of its state is at most its g.
C16_QueueNodesWellFormed ==
    (ASearch /\ pc = "loop") =>
        \A n \in BagToSet(openh) :
            /\ n.f = n.g + manhattan(n.state)
            /\ LinkedToStart(n)
            /\ Len(reconstructRev(n)) = n.g + 1
            /\ n.state \in DOMAIN gbest
            /\ gbest[n.state] <= n.g

C16_Witness ==
    /\ op = "a_star" /\ pc = "loop"
    /\ SolvablePerm(start)
    /\ BagCardinality(openh) >= 8
    /\ \E n \in BagToSet(openh) :
          /\ n.g >= 5
          /\ LinkedToStart(n)
          /\ n.f = n.g + manhattan(n.state)

\* C18: in the UI session, after any sequence of events, session_state.current
\* is a permutation of 0..8 with is_solvable true, so the Solve handler never
\* takes its "Not solvable" branch.
C18_CurrentSolvable ==
    /\ SolvablePerm(session_state.current)
    /\ notice # "not_solvable"

C18_Witness ==
    /\ pc = "idle"
    /\ notice = "solved"
    /\ session_state.tiles # None
    /\ session_state.current # GOAL
    /\ is_solvable(session_state.current)
    /\ Len(session_state.solution) >= 4

\* The fields of the session that a change of current resets.
Playfields(ss) == <<ss.current, ss.solution, ss.metrics, ss.step_idx>>

SolutionFits(ss) ==
    ss.solution # <<>> =>
        /\ ss.solution[1] = ss.current
        /\ ss.solution[Len(ss.solution)] = GOAL
        /\ 0 <= ss.step_idx
        /\ ss.step_idx < Len(ss.solution)

\* A step that changes current empties solution and metrics and zeroes step_idx.
ResetsWithCurrent ==
    session_state'.current # session_state.current =>
        /\ session_state'.solution = <<>>
        /\ session_state'.metrics = EmptyDict
        /\ session_state'.step_idx = 0

\* A script run that ends with the toast of line 186 changes none of the fields.
MissedClickKeeps ==
    notice' = "pick_adjacent" =>
        Playfields(session_state') = Playfields(session_state)

\* C19: in the UI session a non-empty solution starts at current, ends at the
\* goal and has 0 <= step_idx < len(solution); every event that changes
\* current sets solution to empty, metrics to empty and step_idx to 0; and a
\* tile click on a cell not adjacent to the blank leaves current, solution,
\* metrics and step_idx unchanged.
C19_SolutionTracksCurrent ==
    /\ [](SolutionFits(session_state))
    /\ [][ResetsWithCurrent /\ MissedClickKeeps]_vars

C19_Witness ==
    /\ pc = "idle"
    /\ notice = "none"
    /\ session_state.current # GOAL
    /\ Len(session_state.solution) >= 4
    /\ session_state.step_idx = Len(session_state.solution) - 1
    /\ session_state.solution[1] = session_state.current

====
